---------------------------- MODULE Spec2Model ----------------------------
(***************************************************************************)
(* Spin coater controller (src/fanControl.cc): the job state machine, the  *)
(* coarse/fine PWM composition, the countdown and the superloop.           *)
(*                                                                         *)
(* setup() is two steps, before and after its delay(700): the banner is on *)
(* the display while it waits (pc "setup", then "banner").                 *)
(* One loop() iteration is modelled as the sequence of its statements:     *)
(*   read    int pwm = readPwmFromPots();                                  *)
(*   keypad  handleKeypad();                                               *)
(*   check   if (isRunning) { ... getRemainingSeconds() ... stopJob(); }   *)
(*   write   writeFanPwm(isRunning ? pwm : 0);                             *)
(*   ui      the 10 Hz gate and updateLcd().                               *)
(* The LCD is the 16 visible characters of each of its two rows; print()   *)
(* overwrites the characters under the cursor and nothing else.            *)
(* millis() is an input: every statement that calls it receives a reading *)
(* that is the previous reading advanced by a bounded amount (mod 2^32).   *)
(***************************************************************************)
EXTENDS Integers, Sequences, FiniteSets, TLC

VARIABLES
    durationSeconds,      \* unsigned long durationSeconds      (line 72)
    isRunning,            \* bool isRunning                     (line 74)
    jobStartMs,           \* unsigned long jobStartMs           (line 76)
    jobDurationSeconds,   \* unsigned long jobDurationSeconds   (line 78)
    lastUiMs,             \* unsigned long lastUiMs             (line 81)
    clock,                \* the latest value returned by millis()
    fanPwm,               \* the last value given to analogWrite(fanPwmPin, .)
    pc,                   \* the statement of setup()/loop() that runs next
    coarseRaw,            \* readPwmFromPots: coarseRaw of this iteration
    fineRaw,              \* readPwmFromPots: fineRaw of this iteration
    pwm,                  \* loop: int pwm of this iteration
    key,                  \* handleKeypad: char key of this iteration
    wasRunning,           \* isRunning as it was when key was polled
    lcdRow0,              \* the 16 visible characters of LCD row 0
    lcdRow1               \* the 16 visible characters of LCD row 1

vars == <<durationSeconds, isRunning, jobStartMs, jobDurationSeconds,
          lastUiMs, clock, fanPwm, pc, coarseRaw, fineRaw, pwm, key,
          wasRunning, lcdRow0, lcdRow1>>

lcdVars == <<lcdRow0, lcdRow1>>

jobVars == <<durationSeconds, isRunning, jobStartMs, jobDurationSeconds>>

potVars == <<coarseRaw, fineRaw, pwm>>

(***************************************************************************)
(* Program constants.                                                      *)
(***************************************************************************)
\* unsigned long is 32 bits wide on the target: arithmetic is modulo 2^32.
\* A millisecond reading is kept as two 16-bit halves <<high, low>>, its
\* value being high * 2^16 + low (the model checker's integers are narrower
\* than 2^32).
Half == 65536

\* if (durationSeconds <= 99999UL)
DigitLimit == 99999

\* The largest value six digits can enter: 99 999 * 10 + 9.
MaxDuration == DigitLimit * 10 + 9

\* elapsedMs / 1000UL
MsPerSecond == 1000

\* if (nowMs - lastUiMs >= 100UL)
UiPeriodMs == 100

\* delay(700) in setup()
SetupDelayMs == 700

\* analogRead() gives a 10-bit sample; map(raw, 0, 1023, 0, 15)
AdcMax == 1023

StepMax == 15

\* int basePwm = coarseStep * 16
CoarseGain == 16

\* clampInt(pwm, 0, 255)
PwmMax == 255

\* The pin before setup() has written it.
NoWrite == -1

\* LiquidCrystal_I2C lcd(0x27, 16, 2)
LcdCols == 16

\* const int CAL_N = 6
CAL_N == 6

\* const int pwmCal[CAL_N] (index i of the source is i + 1 here)
pwmCal == <<0, 60, 100, 140, 180, 220>>

\* const int rpmCal[CAL_N]
rpmCal == <<0, 800, 1500, 2200, 2900, 3500>>

(***************************************************************************)
(* 32-bit arithmetic.                                                     *)
(***************************************************************************)
\* (unsigned long)n for 0 <= n < 2^31
FromInt(n) == <<n \div Half, n % Half>>

\* unsigned long subtraction: (a - b) modulo 2^32
USub(a, b) ==
    LET low    == a[2] - b[2]
        borrow == IF low < 0 THEN 1 ELSE 0
    IN  <<(a[1] - b[1] - borrow) % Half, low % Half>>

\* unsigned long comparison a >= b
UGeq(a, b) == a[1] > b[1] \/ (a[1] = b[1] /\ a[2] >= b[2])

\* unsigned long division a / 1000UL, by long division on the two halves;
\* the quotient is below 2^23
UDivMs(a) ==
    (a[1] \div MsPerSecond) * Half
        + ((a[1] % MsPerSecond) * Half + a[2]) \div MsPerSecond

(***************************************************************************)
(* Inputs of the model.                                                    *)
(***************************************************************************)
NoKey == "none"

Digits == {"0", "1", "2", "3", "4", "5", "6", "7", "8", "9"}

\* char keys[rows][cols]
AllKeys == Digits \cup {"*", "#", "A", "B", "C", "D"}

\* key - '0'
DigitValue(k) ==
    CASE k = "0" -> 0 [] k = "1" -> 1 [] k = "2" -> 2 [] k = "3" -> 3
      [] k = "4" -> 4 [] k = "5" -> 5 [] k = "6" -> 6 [] k = "7" -> 7
      [] k = "8" -> 8 [] k = "9" -> 9

\* The keys the model presses: one digit, every command key, and no key.
ModelKeys == {"9", "*", "#", "A", "B", "C", "D", NoKey}

\* The pot samples the model reads: both pots at full scale, the largest
\* command.
PotSamples == {AdcMax}

\* Samples that reach every step of a pot.
CoarseSamples == {c \in 0..AdcMax : c % 64 = 0} \cup {AdcMax}

\* Zero, mid-scale and full scale of a pot.
SweepSamples == {0, 512, AdcMax}

\* The pairs <<coarse, fine>> of a sweep of each pot over its whole range
\* with the other pot at zero, mid-scale and full scale.
PotSweep ==
    (SweepSamples \X (0..AdcMax)) \cup ((0..AdcMax) \X SweepSamples)

\* The pairs <<coarse, fine>> of one sample per step of each pot: every PWM
\* command from 0 to 255 is composed.
PotGrid == CoarseSamples \X CoarseSamples

\* The pairs with both pots at the same step: commands from 0 to 255 in
\* steps of 17.
PotDiagonal == {<<c, c>> : c \in CoarseSamples}

\* The largest advance of millis() between two consecutive readings.
MaxAdvance == 1073741824

\* The millis() readings of the model: the boot instant, the end of
\* setup's delay, readings one millisecond before and at the 100 ms UI
\* period and the end of a 9 s job counted from 700, a reading 8.2 s before
\* the 32-bit wrap (a 9 s job started there ends at 800 after the wrap),
\* and readings spaced MaxAdvance apart around the whole 32-bit range.
ClockPoints ==
    {FromInt(n) : n \in {0, 700, 799, 800, 9699, 9700}}
        \cup {USub(FromInt(0), FromInt(8200))}
        \cup {<<k * 16384, 0>> : k \in 1..3}

(***************************************************************************)
(* Pure helpers.                                                           *)
(***************************************************************************)
\* int clampInt(int v, int lo, int hi)
clampInt(v, lo, hi) == IF v < lo THEN lo ELSE IF v > hi THEN hi ELSE v

\* Arduino map(): (x - in_min) * (out_max - out_min) / (in_max - in_min) + out_min
\* (long arithmetic; all operands here are non-negative)
map(x, inMin, inMax, outMin, outMax) ==
    ((x - inMin) * (outMax - outMin)) \div (inMax - inMin) + outMin

\* readPwmFromPots() with the coarse pot spanning the whole PWM range and
\* the fine trim added on top, unclamped.
readPwmFromPotsAdditive(cRaw, fRaw) ==
    map(cRaw, 0, AdcMax, 0, PwmMax) + map(fRaw, 0, AdcMax, 0, StepMax)

\* int readPwmFromPots(), as a function of the two analogRead() samples
readPwmFromPots(cRaw, fRaw) ==
    LET coarseStep == map(cRaw, 0, AdcMax, 0, StepMax)
        fineStep   == map(fRaw, 0, AdcMax, 0, StepMax)
        basePwm    == coarseStep * CoarseGain
    IN  clampInt(basePwm + fineStep, 0, PwmMax)

\* getRemainingSeconds() with the elapsed time taken without wrap-around:
\* a reading below jobStartMs counts as no time elapsed.
getRemainingSecondsNoWrap(now) ==
    IF ~isRunning THEN 0
    ELSE LET elapsedMs  == IF UGeq(now, jobStartMs)
                           THEN USub(now, jobStartMs) ELSE FromInt(0)
             elapsedSec == UDivMs(elapsedMs)
         IN  IF elapsedSec >= jobDurationSeconds THEN 0
             ELSE jobDurationSeconds - elapsedSec

\* getRemainingSeconds() without the early return at the end of the job.
getRemainingSecondsUnclamped(now) ==
    IF ~isRunning THEN 0
    ELSE jobDurationSeconds - UDivMs(USub(now, jobStartMs))

\* unsigned long getRemainingSeconds(), with millis() = now
getRemainingSeconds(now) ==
    IF ~isRunning THEN 0
    ELSE LET elapsedMs  == USub(now, jobStartMs)
             elapsedSec == UDivMs(elapsedMs)
         IN  IF elapsedSec >= jobDurationSeconds THEN 0
             ELSE jobDurationSeconds - elapsedSec

\* The segments whose ends enclose p strictly.
SegmentsOpen(p) ==
    {i \in 0..(CAL_N - 2) : p > pwmCal[i + 1] /\ p < pwmCal[i + 2]}

\* The segments i (0-based, as in the source's for loop) whose ends enclose p
Segments(p) ==
    {i \in 0..(CAL_N - 2) : p >= pwmCal[i + 1] /\ p <= pwmCal[i + 2]}

\* The first segment the for loop finds
FirstSegment(p) == CHOOSE i \in Segments(p) : \A j \in Segments(p) : i <= j

\* int estimateRpmFromPwm(int pwm)
estimateRpmFromPwm(p) ==
    IF p <= pwmCal[1] THEN rpmCal[1]
    ELSE IF p >= pwmCal[CAL_N] THEN rpmCal[CAL_N]
    ELSE IF Segments(p) = {} THEN 0
    ELSE LET i   == FirstSegment(p)
             x0  == pwmCal[i + 1]
             x1  == pwmCal[i + 2]
             y0  == rpmCal[i + 1]
             y1  == rpmCal[i + 2]
             num == (p - x0) * (y1 - y0)
             den == x1 - x0
         IN  y0 + (num \div den)

\* The character of one decimal digit
DigitChar(d) ==
    CASE d = 0 -> "0" [] d = 1 -> "1" [] d = 2 -> "2" [] d = 3 -> "3"
      [] d = 4 -> "4" [] d = 5 -> "5" [] d = 6 -> "6" [] d = 7 -> "7"
      [] d = 8 -> "8" [] d = 9 -> "9"

\* lcd.print(n) of a non-negative number: its decimal digits
RECURSIVE Decimal(_)
Decimal(n) ==
    IF n < 10 THEN <<DigitChar(n)>>
    ELSE Append(Decimal(n \div 10), DigitChar(n % 10))

\* n space characters
Spaces(n) == [i \in 1..n |-> " "]

\* updateLcd(): the characters printed on row 0 from column 0
Line1Text(p) ==
    LET percent == (p * 100) \div PwmMax
        rpmEst  == estimateRpmFromPwm(p)
    IN  <<"S", "P", "D", " ">>
          \o (IF percent < 100 THEN <<" ">> ELSE <<>>)
          \o (IF percent < 10 THEN <<" ">> ELSE <<>>)
          \o Decimal(percent) \o <<"%", " ">>
          \o (IF rpmEst < 1000 THEN <<" ">> ELSE <<>>)
          \o (IF rpmEst < 100 THEN <<" ">> ELSE <<>>)
          \o (IF rpmEst < 10 THEN <<" ">> ELSE <<>>)
          \o Decimal(rpmEst) \o <<"R">>

\* updateLcd(): the characters printed on row 1 from column 0
Line2Text(remainingSec) ==
    IF ~isRunning
    THEN <<"T", " ">> \o Decimal(durationSeconds) \o <<"s">> \o Spaces(11)
    ELSE <<"R", "U", "N", " ">> \o Decimal(remainingSec)
           \o <<"s", " ", "l", "e", "f", "t">> \o Spaces(7)

\* lcd.setCursor(0, r); lcd.print(text): the visible row afterwards
LcdPrint(row, text) ==
    [i \in 1..LcdCols |-> IF i <= Len(text) THEN text[i] ELSE row[i]]

\* The gate comparing the readings as if millis() never wrapped.
uiDueNoWrap(nowMs) ==
    UGeq(nowMs, lastUiMs) /\ UGeq(USub(nowMs, lastUiMs), FromInt(UiPeriodMs))

\* if (nowMs - lastUiMs >= 100UL)
uiDue(nowMs) == UGeq(USub(nowMs, lastUiMs), FromInt(UiPeriodMs))

\* A reading of millis(): the clock has advanced by at most MaxAdvance
\* since the previous reading.
Millis(now) == UGeq(FromInt(MaxAdvance), USub(now, clock))

(***************************************************************************)
(* The job controller.                                                     *)
(***************************************************************************)
\* clearDuration() that forgets the assignment.
clearDurationNoop == UNCHANGED jobVars

\* void clearDuration()
clearDuration ==
    /\ durationSeconds' = 0
    /\ UNCHANGED <<isRunning, jobStartMs, jobDurationSeconds>>

\* startJob() without the zero-duration guard.
startJobUnguarded(now) ==
    /\ jobDurationSeconds' = durationSeconds
    /\ jobStartMs' = now
    /\ isRunning' = TRUE
    /\ UNCHANGED durationSeconds

\* void startJob(), with millis() = now
startJob(now) ==
    IF durationSeconds = 0
    THEN UNCHANGED jobVars
    ELSE /\ jobDurationSeconds' = durationSeconds
         /\ jobStartMs' = now
         /\ isRunning' = TRUE
         /\ UNCHANGED durationSeconds

\* stopJob() that leaves the latched duration in place.
stopJobKeepsLatched ==
    /\ isRunning' = FALSE
    /\ UNCHANGED <<durationSeconds, jobStartMs, jobDurationSeconds>>

\* void stopJob()
stopJob ==
    /\ isRunning' = FALSE
    /\ jobDurationSeconds' = 0
    /\ UNCHANGED <<durationSeconds, jobStartMs>>

\* The digit branch with the limit one digit too long (<= 999999UL).
appendDigitLateLimit(k) ==
    /\ durationSeconds' =
          IF durationSeconds <= MaxDuration
          THEN durationSeconds * 10 + DigitValue(k)
          ELSE durationSeconds
    /\ UNCHANGED <<isRunning, jobStartMs, jobDurationSeconds>>

\* The digit branch with a strict comparison (< 99999UL).
appendDigitStrict(k) ==
    /\ durationSeconds' =
          IF durationSeconds < DigitLimit
          THEN durationSeconds * 10 + DigitValue(k)
          ELSE durationSeconds
    /\ UNCHANGED <<isRunning, jobStartMs, jobDurationSeconds>>

\* the digit branch of handleKeypad()
appendDigit(k) ==
    /\ durationSeconds' =
          IF durationSeconds <= DigitLimit
          THEN durationSeconds * 10 + DigitValue(k)
          ELSE durationSeconds
    /\ UNCHANGED <<isRunning, jobStartMs, jobDurationSeconds>>

\* handleKeypad() whose Running branch does not return: keys other than D
\* fall through to the editing code.
handleKeypadEditsWhileRunning(k, now) ==
    IF k = NoKey THEN UNCHANGED jobVars
    ELSE IF isRunning /\ k = "D" THEN stopJob
    ELSE IF k \in Digits THEN appendDigit(k)
    ELSE IF k = "*" THEN clearDuration
    ELSE IF k = "#" THEN startJob(now)
    ELSE UNCHANGED jobVars

\* handleKeypad() whose Running branch also takes `#`: the job is latched
\* again with a new start time.
handleKeypadRestartsWhileRunning(k, now) ==
    IF k = NoKey THEN UNCHANGED jobVars
    ELSE IF isRunning
         THEN IF k = "D" THEN stopJob
              ELSE IF k = "#" THEN startJob(now)
              ELSE UNCHANGED jobVars
    ELSE IF k \in Digits THEN appendDigit(k)
    ELSE IF k = "*" THEN clearDuration
    ELSE IF k = "#" THEN startJob(now)
    ELSE UNCHANGED jobVars

\* void handleKeypad(), with keypad.getKey() = k and millis() = now
handleKeypad(k, now) ==
    IF k = NoKey THEN UNCHANGED jobVars
    ELSE IF isRunning
         THEN IF k = "D" THEN stopJob ELSE UNCHANGED jobVars
    ELSE IF k \in Digits THEN appendDigit(k)
    ELSE IF k = "*" THEN clearDuration
    ELSE IF k = "#" THEN startJob(now)
    ELSE UNCHANGED jobVars

(***************************************************************************)
(* setup() and the statements of loop().                                   *)
(***************************************************************************)
Init ==
    /\ durationSeconds = 0
    /\ isRunning = FALSE
    /\ jobStartMs = FromInt(0)
    /\ jobDurationSeconds = 0
    /\ lastUiMs = FromInt(0)
    /\ clock = FromInt(0)
    /\ fanPwm = NoWrite
    /\ pc = "setup"
    /\ coarseRaw = 0
    /\ fineRaw = 0
    /\ pwm = 0
    /\ key = NoKey
    /\ wasRunning = FALSE
    /\ lcdRow0 = Spaces(LcdCols)
    /\ lcdRow1 = Spaces(LcdCols)

\* void setup(), up to delay(700): lcd.init(), lcd.clear() and the banner,
\* which stays on the display while setup() waits.
SetupBanner ==
    /\ pc = "setup"
    /\ lcdRow0' = LcdPrint(Spaces(LcdCols),
                           <<"S", "p", "i", "n", " ",
                             "C", "o", "a", "t", "e", "r">>)
    /\ lcdRow1' = LcdPrint(Spaces(LcdCols), <<"R", "e", "a", "d", "y">>)
    /\ pc' = "banner"
    /\ UNCHANGED <<jobVars, lastUiMs, clock, fanPwm, potVars, key,
                   wasRunning>>

\* void setup(), from delay(700): the wait, lcd.clear(), writeFanPwm(0)
Setup(now) ==
    /\ pc = "banner"
    /\ Millis(now)
    /\ UGeq(USub(now, clock), FromInt(SetupDelayMs))
    /\ clock' = now
    /\ lcdRow0' = Spaces(LcdCols)
    /\ lcdRow1' = Spaces(LcdCols)
    /\ fanPwm' = 0
    /\ pc' = "read"
    /\ UNCHANGED <<jobVars, lastUiMs, potVars, key, wasRunning>>

\* The pot reading with the command held at its value while a job runs.
LoopReadPotsLatched(c, f) ==
    /\ pc = "read"
    /\ coarseRaw' = c
    /\ fineRaw' = f
    /\ pwm' = IF isRunning THEN pwm ELSE readPwmFromPots(c, f)
    /\ pc' = "keypad"
    /\ UNCHANGED <<jobVars, lastUiMs, clock, fanPwm, key, wasRunning, lcdVars>>

\* loop(): int pwm = readPwmFromPots();
LoopReadPots(c, f) ==
    /\ pc = "read"
    /\ coarseRaw' = c
    /\ fineRaw' = f
    /\ pwm' = readPwmFromPots(c, f)
    /\ pc' = "keypad"
    /\ UNCHANGED <<jobVars, lastUiMs, clock, fanPwm, key, wasRunning, lcdVars>>

\* loop(): handleKeypad();  millis() is read only by startJob()
LoopHandleKeypad(k, now) ==
    /\ pc = "keypad"
    /\ Millis(now)
    /\ key' = k
    /\ wasRunning' = isRunning
    /\ handleKeypad(k, now)
    /\ clock' = IF k = "#" /\ ~isRunning /\ durationSeconds # 0
                THEN now ELSE clock
    /\ pc' = "check"
    /\ UNCHANGED <<lastUiMs, fanPwm, potVars, lcdVars>>

\* loop(): if (isRunning) { if (getRemainingSeconds() == 0) stopJob(); }
LoopCheckCountdown(now) ==
    /\ pc = "check"
    /\ IF isRunning
       THEN /\ Millis(now)
            /\ clock' = now
            /\ IF getRemainingSeconds(now) = 0
               THEN stopJob
               ELSE UNCHANGED jobVars
       ELSE /\ now = clock
            /\ UNCHANGED <<clock, jobVars>>
    /\ pc' = "write"
    /\ UNCHANGED <<lastUiMs, fanPwm, potVars, key, wasRunning, lcdVars>>

\* The PWM write without the Idle branch.
LoopWritePwmAlways ==
    /\ pc = "write"
    /\ fanPwm' = pwm
    /\ pc' = "ui"
    /\ UNCHANGED <<jobVars, lastUiMs, clock, potVars, key, wasRunning,
                   lcdVars>>

\* The PWM write deciding on the running flag as it was before the keypad
\* and the countdown were handled.
LoopWritePwmStale ==
    /\ pc = "write"
    /\ fanPwm' = IF wasRunning THEN pwm ELSE 0
    /\ pc' = "ui"
    /\ UNCHANGED <<jobVars, lastUiMs, clock, potVars, key, wasRunning,
                   lcdVars>>

\* loop(): if (isRunning) writeFanPwm(pwm); else writeFanPwm(0);
LoopWritePwm ==
    /\ pc = "write"
    /\ fanPwm' = IF isRunning THEN pwm ELSE 0
    /\ pc' = "ui"
    /\ UNCHANGED <<jobVars, lastUiMs, clock, potVars, key, wasRunning,
                   lcdVars>>

\* loop(): nowMs = millis(); if (nowMs - lastUiMs >= 100UL) { lastUiMs = nowMs;
\*         remainingSec = getRemainingSeconds(); updateLcd(pwm, remainingSec); }
\* nowMs is the first reading; now2 the one getRemainingSeconds() takes.
LoopUpdateUi(nowMs, now2) ==
    /\ pc = "ui"
    /\ Millis(nowMs)
    /\ IF uiDue(nowMs)
       THEN /\ UGeq(FromInt(MaxAdvance), USub(now2, nowMs))
            /\ lastUiMs' = nowMs
            /\ clock' = IF isRunning THEN now2 ELSE nowMs
            /\ lcdRow0' = LcdPrint(lcdRow0, Line1Text(pwm))
            /\ lcdRow1' = LcdPrint(lcdRow1,
                                   Line2Text(getRemainingSeconds(now2)))
       ELSE /\ now2 = nowMs
            /\ clock' = nowMs
            /\ UNCHANGED <<lastUiMs, lcdVars>>
    /\ pc' = "read"
    /\ coarseRaw' = 0
    /\ fineRaw' = 0
    /\ pwm' = 0
    /\ key' = NoKey
    /\ wasRunning' = FALSE
    /\ UNCHANGED <<jobVars, fanPwm>>

\* One statement of setup() or loop(), with the keys and millis() readings
\* drawn from the given sets, the pots read as one of the given pairs
\* <<coarse, fine>> of samples.
Run(keys, readings, pots) ==
    \/ SetupBanner
    \/ \E now \in readings : Setup(now)
    \/ pc = "read" /\ \E s \in pots : LoopReadPots(s[1], s[2])
    \/ \E k \in keys, now \in readings : LoopHandleKeypad(k, now)
    \/ \E now \in readings : LoopCheckCountdown(now)
    \/ LoopWritePwm
    \/ \E nowMs \in readings, now2 \in readings :
           LoopUpdateUi(nowMs, now2)

\* The program with each pot read as any of the samples.
Step(keys, readings, samples) == Run(keys, readings, samples \X samples)

Next == Step(ModelKeys, ClockPoints, PotSamples)

Spec == Init /\ [][Next]_vars

\* The same program with the pots at full scale, the keys that enter,
\* start and abort a job, and millis() readings 2^30 apart around the whole
\* 32-bit range and 9 s after the wrap: the loop keeps iterating (the
\* superloop never blocks) and millis() keeps advancing.
LiveNext ==
    Step({"9", "#", "D", NoKey},
         {FromInt(0), FromInt(9 * MsPerSecond)}
             \cup {<<k * 16384, 0>> : k \in 1..3},
         {AdcMax})

ClockAdvances == LiveNext /\ clock' # clock

LiveSpec ==
    Init /\ [][LiveNext]_vars /\ WF_vars(LiveNext) /\ SF_vars(ClockAdvances)

\* The same program with three digit keys (0, 1 and 9 enter every mix of
\* leading zeros, values just above 99 999 and the largest values), the pots
\* at full scale and the clock standing at the end of setup's delay, so
\* that jobs of every enterable duration start and are aborted.
KeypadNext ==
    Step({"0", "1", "9", "*", "#", "A", "D", NoKey},
         {FromInt(SetupDelayMs)}, {AdcMax})

KeypadSpec == Init /\ [][KeypadNext]_vars

\* The program with one digit key, start, abort and
\* clear, the coarse pot at mid-scale and the fine pot at zero, and every
\* millis() reading of ClockPoints, so that jobs of 9 s to 999 999 s are
\* rendered while they run, when they end and after the entry is cleared.
LcdNext == Run({"9", "*", "#", "D", NoKey}, ClockPoints, {<<512, 0>>})

LcdSpec == Init /\ [][LcdNext]_vars

\* The program with no key pressed and the pots swept over PotSweep, the
\* clock standing at the end of setup's delay.
PotNext == Run({NoKey}, {FromInt(SetupDelayMs)}, PotSweep)

PotSpec == Init /\ [][PotNext]_vars

\* The program with jobs started and aborted at the end of setup's delay
\* and the pots read over PotDiagonal: commands over the whole range are
\* composed, and written to the fan while a job runs.
DutyNext ==
    Run({"9", "#", "D", NoKey}, {FromInt(SetupDelayMs)}, PotDiagonal)

DutySpec == Init /\ [][DutyNext]_vars

\* The program with one digit key, start and abort, each pot read at zero,
\* mid-scale and full scale independently in every iteration, and millis()
\* at the end of setup's delay, 100 ms later and 9 s later: jobs of 9 s to
\* 999 999 s start at either of the first two readings, run over iterations
\* whose pot readings differ, are rendered, aborted or completed.
StartNext ==
    Step({"9", "#", "D", NoKey},
         {FromInt(SetupDelayMs), FromInt(SetupDelayMs + UiPeriodMs),
          FromInt(SetupDelayMs + 9 * MsPerSecond)},
         SweepSamples)

StartSpec == Init /\ [][StartNext]_vars

\* The program with no key pressed and the pots read over PotGrid, the
\* clock standing at the end of setup's delay: every PWM command from 0 to
\* 255 is composed and rendered.
GridNext == Run({NoKey}, {FromInt(SetupDelayMs)}, PotGrid)

GridSpec == Init /\ [][GridNext]_vars

\* Scenario S1: the program with no key ever pressed, the coarse
\* pot at raw 512 and the fine pot at raw 0, at every millis() reading of
\* ClockPoints and at two more renders 100 ms apart.
IdleDisplayNext ==
    Run({NoKey}, ClockPoints \cup {FromInt(900), FromInt(1000)},
        {<<512, 0>>})

IdleDisplaySpec == Init /\ [][IdleDisplayNext]_vars

(***************************************************************************)
(* Properties.                                                             *)
(***************************************************************************)
\* C1 (Fan off when Idle): after the PWM write of an iteration that ends
\* Idle, and after setup() before the first iteration, the value on the fan
\* PWM output is 0, whatever the pots read.
FanOffWhenIdle ==
    (pc \in {"ui", "read", "keypad"} /\ ~isRunning) => fanPwm = 0

FanOffWhenIdleWitness ==
    pc = "ui" /\ ~isRunning /\ pwm = PwmMax /\ fanPwm = 0

\* C2 (Stop resets the entry): in every iteration in which a job ends, by D
\* or by completion, the controller is left Idle with the entered duration
\* equal to 0.  stopJob() clears isRunning and jobDurationSeconds only, so
\* the program does not have this property.
StopResetsEntered ==
    (wasRunning /\ ~isRunning) => durationSeconds = 0

\* C3 (Job completes): at the countdown check of every iteration of a
\* running job, the job stays Running exactly when the reading satisfies
\* (now - t0) mod 2^32 < d * 1000 and becomes Idle otherwise; and with the
\* loop iterating and the clock advancing, every running job becomes Idle.
JobCompletes ==
    /\ [][(pc = "check" /\ isRunning) =>
            (isRunning' <=>
                ~UGeq(USub(clock', jobStartMs),
                      FromInt(jobDurationSeconds * MsPerSecond)))]_vars
    /\ (isRunning ~> ~isRunning)

JobCompletesWitness ==
    pc = "write" /\ wasRunning /\ ~isRunning /\ key # "D"
        /\ USub(clock, jobStartMs) = FromInt(9 * MsPerSecond)

\* C4 (Abort in the same iteration): when D is polled while Running, the
\* controller is Idle for the rest of that iteration and the PWM value
\* written in that iteration is 0.
AbortSameIteration ==
    /\ (key = "D" /\ wasRunning) => ~isRunning
    /\ (pc = "ui" /\ key = "D" /\ wasRunning) => fanPwm = 0

AbortSameIterationWitness ==
    pc = "ui" /\ key = "D" /\ wasRunning /\ pwm = PwmMax /\ fanPwm = 0

\* C5 (Start): `#` polled while Idle with entered duration d > 0 makes the
\* controller Running in that step with latched duration d and start time
\* the clock reading of that step; in that iteration and in every later
\* iteration in which the job is still Running the PWM write puts out the
\* command composed from the two pot samples read in that same iteration
\* (255 for coarse 1023, fine 1023), whatever was read or written before.
StartLatches ==
    /\ [][(pc = "keypad" /\ ~isRunning /\ durationSeconds > 0 /\ key' = "#")
            => /\ isRunning'
               /\ jobDurationSeconds' = durationSeconds
               /\ durationSeconds' = durationSeconds
               /\ jobStartMs' = clock']_vars
    /\ [][(pc = "write" /\ isRunning) =>
            fanPwm' = readPwmFromPots(coarseRaw, fineRaw)]_vars
    /\ []((pc = "ui" /\ isRunning) =>
            /\ fanPwm = readPwmFromPots(coarseRaw, fineRaw)
            /\ (coarseRaw = AdcMax /\ fineRaw = AdcMax => fanPwm = 255))

\* A job of 99 s started at reading 800 with both pots at full scale was
\* rendered in its first iteration (`SPD 100% 3500R`); in a later iteration
\* the pots read 512 and 0 and the write has put out 112.
StartLatchesWitness ==
    /\ pc = "ui"
    /\ isRunning
    /\ wasRunning
    /\ jobDurationSeconds = 99
    /\ jobStartMs = FromInt(SetupDelayMs + UiPeriodMs)
    /\ lcdRow0 = LcdPrint(Spaces(LcdCols), Line1Text(PwmMax))
    /\ lcdRow1[1] = "R"
    /\ coarseRaw = 512
    /\ fineRaw = 0
    /\ fanPwm = 112

\* C6 (Start at duration 0): `#` polled while Idle with entered duration 0
\* changes nothing of the job state, and the PWM written in that iteration
\* is 0.
StartAtZeroNoOp ==
    /\ [][(pc = "keypad" /\ ~isRunning /\ durationSeconds = 0 /\ key' = "#")
            => UNCHANGED jobVars]_vars
    /\ []((pc = "ui" /\ key = "#" /\ ~wasRunning /\ durationSeconds = 0)
            => (~isRunning /\ fanPwm = 0))

StartAtZeroNoOpWitness ==
    pc = "ui" /\ key = "#" /\ ~wasRunning /\ durationSeconds = 0
        /\ pwm = PwmMax /\ fanPwm = 0

\* C7 (Digit overflow safety): the entered duration never exceeds 999 999;
\* a digit polled while Idle with an entered duration above 99 999 leaves it
\* unchanged, and `9` polled at 99 999 gives 999 999 (the sixth and the
\* seventh `9` of seven `9` presses from 0).
DigitOverflowSafe ==
    /\ [](durationSeconds <= MaxDuration)
    /\ [][(pc = "keypad" /\ ~isRunning /\ key' \in Digits
             /\ durationSeconds > DigitLimit)
            => durationSeconds' = durationSeconds]_vars
    /\ [][(pc = "keypad" /\ ~isRunning /\ key' = "9"
             /\ durationSeconds = DigitLimit)
            => durationSeconds' = MaxDuration]_vars

DigitOverflowSafeWitness ==
    pc = "check" /\ key = "9" /\ ~wasRunning /\ durationSeconds = MaxDuration

\* C8 as stated: the entered duration and the latched duration of a job
\* never exceed 99 999 seconds.
JobLengthAtMostDigitLimit ==
    durationSeconds <= DigitLimit /\ jobDurationSeconds <= DigitLimit

\* C8 amended: a digit is dropped only when the entered duration already
\* exceeds 99 999 (at 99 999 or below it is appended), so the latched
\* duration of a job is the entered duration, between 1 and 999 999 seconds.
JobLengthBound ==
    /\ [](isRunning =>
            /\ jobDurationSeconds = durationSeconds
            /\ jobDurationSeconds >= 1
            /\ jobDurationSeconds <= MaxDuration)
    /\ [][(pc = "keypad" /\ ~isRunning /\ key' \in Digits
             /\ durationSeconds <= DigitLimit)
            => durationSeconds' = durationSeconds * 10 + DigitValue(key')]_vars

JobLengthBoundWitness ==
    isRunning /\ jobDurationSeconds = MaxDuration

\* C9 (Clear): `*` polled while Idle sets the entered duration to 0 and
\* keeps the controller Idle; nothing before the next poll changes an Idle
\* controller's entered duration, and `#` polled at duration 0 starts no job.
ClearResets ==
    /\ [][(pc = "keypad" /\ ~isRunning /\ key' = "*")
            => /\ durationSeconds' = 0
               /\ ~isRunning'
               /\ UNCHANGED <<jobStartMs, jobDurationSeconds>>]_vars
    /\ []((key = "*" /\ ~wasRunning) => (durationSeconds = 0 /\ ~isRunning))
    /\ [][(pc # "keypad" /\ ~isRunning)
            => UNCHANGED <<durationSeconds, isRunning>>]_vars
    /\ [][(pc = "keypad" /\ ~isRunning /\ durationSeconds = 0 /\ key' = "#")
            => ~isRunning']_vars

ClearResetsWitness ==
    pc = "ui" /\ key = "*" /\ ~wasRunning /\ durationSeconds = 0
        /\ ~isRunning

\* C10 (Illegal keys are ignored): A, B, C, D polled while Idle, any key
\* but D polled while Running, and a poll that returns no key leave the
\* entered duration, the running flag, the latched duration and the start
\* time unchanged.
IllegalKeysIgnored ==
    [][(/\ pc = "keypad"
        /\ \/ ~isRunning /\ key' \in {"A", "B", "C", "D"}
           \/ isRunning /\ key' \in AllKeys \ {"D"}
           \/ key' = NoKey)
        => UNCHANGED jobVars]_vars

IllegalKeysIgnoredWitness ==
    pc = "check" /\ wasRunning /\ isRunning /\ key = "9"
        /\ durationSeconds = 9

\* C11 (UI rate limit): the UI step of an iteration renders (stamps the
\* render time and prints both rows) exactly when its reading is at least
\* 100 ms, as a difference modulo 2^32, after the reading of the previous
\* render decision; so two consecutive renders are at least 100 ms apart,
\* across the 32-bit wrap too, and an iteration that does not render
\* leaves the display alone.
UiRateLimit ==
    [][pc = "ui" =>
        IF lastUiMs' # lastUiMs
        THEN /\ UGeq(USub(lastUiMs', lastUiMs), FromInt(UiPeriodMs))
             /\ lcdRow0' = LcdPrint(lcdRow0, Line1Text(pwm))
        ELSE /\ ~UGeq(USub(clock', lastUiMs), FromInt(UiPeriodMs))
             /\ UNCHANGED lcdVars]_vars

UiRateLimitWitness ==
    pc = "read" /\ lastUiMs = FromInt(800) /\ lcdRow0[2] = "P"

\* C12 (remainingSeconds): at every reading of the clock the remaining time
\* is 0 when Idle; when Running it lies in [0, latched duration], is 0 once
\* the elapsed time (now - start) mod 2^32 has reached the latched duration
\* and otherwise is the latched duration less the whole seconds elapsed;
\* and over the successive readings of one job, through the 32-bit wrap of
\* the clock too, it never increases.
RemainingSeconds ==
    /\ [](\A now \in ClockPoints :
            LET r         == getRemainingSeconds(now)
                elapsedMs == USub(now, jobStartMs)
                d         == jobDurationSeconds
            IN  IF ~isRunning THEN r = 0
                ELSE /\ r \in 0..d
                     /\ IF UGeq(elapsedMs, FromInt(d * MsPerSecond))
                        THEN r = 0
                        ELSE /\ UGeq(elapsedMs,
                                     FromInt((d - r) * MsPerSecond))
                             /\ ~UGeq(elapsedMs,
                                      FromInt((d - r + 1) * MsPerSecond)))
    /\ [][(isRunning /\ isRunning' /\ jobStartMs' = jobStartMs)
            => getRemainingSeconds(clock)' <= getRemainingSeconds(clock)]_vars

RemainingSecondsWitness ==
    /\ isRunning
    /\ jobDurationSeconds = 9
    /\ jobStartMs = USub(FromInt(0), FromInt(8200))
    /\ clock = FromInt(700)
    /\ getRemainingSeconds(clock) = 1

\* C13 (composePwm formula): for every coarseRaw and fineRaw in [0, 1023]
\* the composed PWM command is floor(coarseRaw*16/1024)*16 +
\* floor(fineRaw*16/1024), 16 equal steps per pot.  readPwmFromPots() scales
\* with map(raw, 0, 1023, 0, 15), so the program does not have this
\* property (coarse 512, fine 0 composes 112).
ComposePwmEqualSteps ==
    (pc \in {"keypad", "check", "write", "ui"}) =>
        pwm = ((coarseRaw * (StepMax + 1)) \div (AdcMax + 1)) * CoarseGain
                + (fineRaw * (StepMax + 1)) \div (AdcMax + 1)

\* C14 (PWM range): the PWM command composed from any two samples is an
\* integer in [0, 255], and so is every value written to the fan PWM
\* output, by setup() and by every iteration of the loop.
PwmRange ==
    /\ pwm \in 0..PwmMax
    /\ pc \notin {"setup", "banner"} => fanPwm \in 0..PwmMax

PwmRangeWitness ==
    /\ pc = "ui"
    /\ isRunning
    /\ coarseRaw = AdcMax
    /\ fineRaw = AdcMax
    /\ fanPwm = PwmMax

\* C15 (RPM estimation): for every pwm in [0, 255] the estimate is the
\* first tabulated RPM at or below the first tabulated PWM, the last one at
\* or above the last, and in between y0 + ((pwm - x0) * (y1 - y0)) / (x1 - x0)
\* in integer division on every segment [x0, x1] that contains pwm; every
\* tabulated PWM gives its tabulated RPM, and some segment always contains
\* a pwm between the ends of the table, so the final return 0 is never
\* reached.
RpmEstimate ==
    LET r == estimateRpmFromPwm(pwm)
    IN  /\ pwm \in 0..PwmMax
        /\ pwm <= pwmCal[1] => r = rpmCal[1]
        /\ pwm >= pwmCal[CAL_N] => r = rpmCal[CAL_N]
        /\ \A i \in 1..(CAL_N - 1) :
              (/\ pwm > pwmCal[1]
               /\ pwm < pwmCal[CAL_N]
               /\ pwmCal[i] <= pwm
               /\ pwm <= pwmCal[i + 1])
              => r = rpmCal[i]
                       + ((pwm - pwmCal[i]) * (rpmCal[i + 1] - rpmCal[i]))
                           \div (pwmCal[i + 1] - pwmCal[i])
        /\ \A i \in 1..CAL_N : pwm = pwmCal[i] => r = rpmCal[i]
        /\ (pwm > pwmCal[1] /\ pwm < pwmCal[CAL_N]) => Segments(pwm) # {}

RpmEstimateWitness ==
    pc = "ui" /\ pwm = pwmCal[4] /\ estimateRpmFromPwm(pwm) = rpmCal[4]

\* C16 (Scenario S1, idle display): with no key pressed, the coarse pot at
\* raw 512 and the fine pot at raw 0, every PWM write is 0, row 0 shows
\* `SPD  50% 1900R` after every render and row 1 shows `T 0s` and spaces.
\* The program composes 112 from these samples and renders
\* `SPD  43% 1710R`, so it does not have this property.
IdleDisplayHalfDuty ==
    /\ pc \notin {"setup", "banner"} => fanPwm = 0
    /\ pc \notin {"setup", "banner"} =>
          /\ lcdRow0 \in {Spaces(LcdCols),
                           <<"S", "P", "D", " ", " ", "5", "0", "%", " ",
                             "1", "9", "0", "0", "R", " ", " ">>}
          /\ lcdRow1 \in {Spaces(LcdCols),
                           <<"T", " ", "0", "s", " ", " ", " ", " ", " ",
                             " ", " ", " ", " ", " ", " ", " ">>}

\* C17 (No stale characters on line 2): every render leaves the 16 visible
\* characters of row 1 equal to the text of the current state, `T {d}s`
\* when Idle and `RUN {r}s left` when Running with r the remaining time
\* the render read, followed by spaces up to column 16.
NoStaleLine2 ==
    [][(pc = "ui" /\ lastUiMs' # lastUiMs) =>
        lcdRow1' =
            LcdPrint(Spaces(LcdCols),
                     IF ~isRunning
                     THEN <<"T", " ">> \o Decimal(durationSeconds) \o <<"s">>
                     ELSE <<"R", "U", "N", " ">>
                            \o Decimal(getRemainingSeconds(clock'))
                            \o <<"s", " ", "l", "e", "f", "t">>)]_vars

\* C18 (Latched job data is frozen): while the controller stays Running the
\* latched duration and the start time do not change, whatever key is
\* polled and however far the clock advances, and no step taken while
\* Running changes the entered duration; the entered duration changes only
\* in the keypad step of an Idle controller.
LatchedFrozen ==
    /\ [][(isRunning /\ isRunning')
            => UNCHANGED <<jobDurationSeconds, jobStartMs>>]_vars
    /\ [][isRunning => durationSeconds' = durationSeconds]_vars
    /\ [][durationSeconds' # durationSeconds
            => (pc = "keypad" /\ ~isRunning)]_vars

LatchedFrozenWitness ==
    /\ pc = "check"
    /\ wasRunning
    /\ isRunning
    /\ key = "#"
    /\ clock # jobStartMs
    /\ jobDurationSeconds = 9

\* C19 (Consistent render snapshot): every render while Running prints a
\* remaining time of at least 1 second in an iteration whose PWM write was
\* the composed command, and row 1 never shows `RUN 0s left`.
RenderSnapshot ==
    /\ [][(pc = "ui" /\ isRunning /\ lastUiMs' # lastUiMs) =>
            /\ getRemainingSeconds(clock') >= 1
            /\ fanPwm = pwm]_vars
    /\ [](~(lcdRow1[1] = "R" /\ lcdRow1[5] = "0" /\ lcdRow1[6] = "s"))

\* C20 (Running iff latched duration positive): in every reachable state
\* the controller is Running exactly when the latched duration is greater
\* than 0, and a Running controller's latched duration is at most 999 999.
RunningIffLatched ==
    /\ isRunning <=> jobDurationSeconds > 0
    /\ isRunning => jobDurationSeconds <= MaxDuration

RunningIffLatchedWitness ==
    /\ pc = "write"
    /\ ~isRunning
    /\ wasRunning
    /\ key = "D"
    /\ jobDurationSeconds = 0
    /\ durationSeconds = MaxDuration

=============================================================================
